---- MODULE Spec2Model ----
(***************************************************************************)
(* Model of sphinx_needs/builder.py: the builder base, the three exporters *)
(* (NeedsBuilder, NeedsIdBuilder, NeedumlsBuilder) and the three           *)
(* build-finished hooks that run them as secondary builders.               *)
(*                                                                         *)
(* The registry (needs, filters, umls), the configuration and the file     *)
(* system are the state.  One action models one whole call of a method or  *)
(* hook.  NeedsList and filter_needs are collaborators imported by         *)
(* builder.py; they are modelled from their documented contracts.          *)
(***************************************************************************)
EXTENDS Integers, Sequences, FiniteSets, TLC

\* ------------------------------------------------------------------ bounds
MaxNeeds == 2   \* longest need registry of the JSON export scenarios
MaxIdNeeds == 3 \* longest need registry of the per-need export scenarios
MaxUmls == 2    \* longest diagram registry
MaxBuilds == 3  \* host builds in one behaviour

\* --------------------------------------------------------------- data model
\* Need records (NeedsInfoType): an id and one descriptive field.
NeedsInfoType ==
  { [id |-> "R1", status |-> "open"],
    [id |-> "R2", status |-> "closed"],
    [id |-> "R3", status |-> "open"] }

\* Filter records: export_id is a string, empty when the filter is not exported.
FilterOpen == [filter |-> "status == 'open'", export_id |-> "open_needs"]
FilterAll == [filter |-> "", export_id |-> ""]

\* Diagram records: save is a relative path (empty when unset).
UmlA == [save |-> <<"a.puml">>, content_calculated |-> "@startuml A"]
UmlB == [save |-> <<"sub", "dir", "out.puml">>, content_calculated |-> "@startuml B"]
UmlA2 == [save |-> <<"a.puml">>, content_calculated |-> "@startuml A2"]
UmlNoSave == [save |-> <<>>, content_calculated |-> "@startuml C"]
NeedumlType == {UmlA, UmlA2, UmlB, UmlNoSave}

SeqsUpTo(S, n) == UNION {[1..k -> S] : k \in 0..n}
Range(s) == {s[i] : i \in DOMAIN s}

\* get_or_create_needs().values(): a dict keyed by id, in insertion order.
NeedRegistries(universe, n) ==
  {s \in SeqsUpTo(universe, n) :
     \A i, j \in DOMAIN s : i # j => s[i].id # s[j].id}
\* The registries of the JSON export scenarios hold R1 and R2.
JsonRegistries ==
  NeedRegistries({n \in NeedsInfoType : n.id \in {"R1", "R2"}}, MaxNeeds)
\* get_or_create_umls().values(): save paths are unique among the records.
UmlRegistries ==
  {s \in SeqsUpTo(NeedumlType, MaxUmls) :
     \A i, j \in DOMAIN s : i # j /\ s[i].save # <<>> => s[i].save # s[j].save}

\* env.config.version: the attribute may be missing.
NoVersion == "<missing>"
ConfigVersions == {NoVersion, "1.0"}
\* needs_file: empty when not configured.
SharedNeedsFile == <<"shared", "needs.json">>
NeedsFiles == {<<>>, SharedNeedsFile}
\* needs_builder_filter: empty selects every need.
BuilderFilters == {"", "status == 'open'"}
\* needs_build_needumls: the sub folder for the hook's output, empty when off.
NeedumlsFolders == {"", "diagrams"}
BuilderNames == {"html", "needs", "needs_id", "needumls"}
Exporters == {"needs", "needs_id", "needumls"}
DocNames == {"index", "usage", "api"}

\* Paths are sequences of components; os.path.join of a relative path appends.
outdir == <<"out">>
srcdir == <<"src">>
path_join(a, b) == a \o b
dirname(p) == SubSeq(p, 1, Len(p) - 1)

VARIABLES
  needs, filters, umls, found_docs,                 \* registry and environment
  config_version, needs_file, builder_filter,       \* configuration
  build_json, build_json_per_id, build_needumls,
  build_json_per_id_path, primary,                  \* app.builder
  fs, dirs, log,                                    \* files, directories, log
  phase, hooksDone, finishCalls, secondary, raised, \* one host build
  needs_list, wrote, failed,                        \* what the last finish() did
  builds, runs, chained, lastExport, stale,         \* history of NeedsBuilder
  outdated, target_uri, write_phase                 \* results of the base methods

registryVars == <<needs, filters, umls, found_docs>>
configVars ==
  <<config_version, needs_file, builder_filter, build_json, build_json_per_id,
    build_needumls, build_json_per_id_path, primary>>
jsonVars == <<needs_list, runs, chained, lastExport, stale>>
baseVars == <<outdated, target_uri, write_phase>>
vars ==
  <<needs, filters, umls, found_docs, config_version, needs_file, builder_filter,
    build_json, build_json_per_id, build_needumls, build_json_per_id_path, primary,
    fs, dirs, log, phase, hooksDone, finishCalls, secondary, raised,
    needs_list, wrote, failed, builds, runs, chained, lastExport, stale,
    outdated, target_uri, write_phase>>

\* version = getattr(env.config, "version", "unset")
version == IF config_version = NoVersion THEN "unset" ELSE config_version
VersionLabels == {"unset", "1.0"}

\* ------------------------------------------------- filter_needs (collaborator)
FilterMatches(need, filter_string) ==
  \/ filter_string = ""
  \/ filter_string = "status == 'open'" /\ need.status = "open"

filter_needs(all_needs, filter_string) ==
  SelectSeq(all_needs, LAMBDA n : FilterMatches(n, filter_string))

\* ---------------------------------------------------- NeedsList (collaborator)
\* The list state maps a version label to its needs and its exported filters.
EmptyNeedsList == <<>>

load_json(fsys, file) ==
  IF file \in DOMAIN fsys THEN fsys[file] ELSE EmptyNeedsList

wipe_version(nl, v) == [w \in (DOMAIN nl) \ {v} |-> nl[w]]

EntryOf(nl, v) ==
  IF v \in DOMAIN nl THEN nl[v] ELSE [needs |-> <<>>, filters |-> <<>>]

add_need(nl, v, need) ==
  [w \in (DOMAIN nl) \cup {v} |->
     IF w = v
       THEN [EntryOf(nl, v) EXCEPT !.needs = Append(@, need)]
       ELSE nl[w]]

add_filter(nl, v, need_filter) ==
  [w \in (DOMAIN nl) \cup {v} |->
     IF w = v
       THEN [EntryOf(nl, v) EXCEPT !.filters = Append(@, need_filter)]
       ELSE nl[w]]

NeedsOf(nl, v) == EntryOf(nl, v).needs

\* write_json(needs_file="...", needs_path="..."): the target of a call.  A call
\* without arguments writes the configured needs file, else needs.json in outdir.
NoArg == "<default>"
write_json_target(args) ==
  IF args = <<NoArg, NoArg>>
    THEN IF needs_file # <<>> THEN needs_file ELSE path_join(outdir, <<"needs.json">>)
    ELSE path_join(args[2], <<args[1]>>)

write_file(fsys, path, content) ==
  [p \in (DOMAIN fsys) \cup {path} |-> IF p = path THEN content ELSE fsys[p]]

\* ------------------------------------------------------------ NeedsBuilder
NeedsBuilder_base_noload == EmptyNeedsList

\* needs_list after the optional load_json.
NeedsBuilder_base ==
  IF needs_file # <<>> THEN load_json(fs, needs_file) ELSE EmptyNeedsList

RECURSIVE AddNeeds(_, _, _)
AddNeeds(nl, v, filtered_needs) ==
  IF filtered_needs = <<>> THEN nl
  ELSE AddNeeds(add_need(nl, v, Head(filtered_needs)), v, Tail(filtered_needs))

RECURSIVE AddFilters(_, _, _)
AddFilters(nl, v, need_filters) ==
  IF need_filters = <<>> THEN nl
  ELSE AddFilters(
         IF Head(need_filters).export_id # ""
           THEN add_filter(nl, v, Head(need_filters)) ELSE nl,
         v, Tail(need_filters))

NeedsBuilder_needs_list_nowipe ==
  AddFilters(
    AddNeeds(NeedsBuilder_base, version, filter_needs(needs, builder_filter)),
    version, filters)

NeedsBuilder_needs_list_nofilter ==
  AddFilters(
    AddNeeds(wipe_version(NeedsBuilder_base, version), version, needs),
    version, filters)

\* The list state NeedsBuilder.finish() hands to write_json.
NeedsBuilder_needs_list ==
  AddFilters(
    AddNeeds(wipe_version(NeedsBuilder_base, version), version,
             filter_needs(needs, builder_filter)),
    version, filters)

NeedsBuilder_write_args_srcdir == <<"needs.json", srcdir>>

\* needs_list.write_json(): no arguments.
NeedsBuilder_write_args == <<NoArg, NoArg>>

Ids(s) == {s[i].id : i \in DOMAIN s}

NeedsBuilder_log(write_fails) ==
  (IF needs_file = <<>> /\ path_join(srcdir, <<"needs.json">>) \in DOMAIN fs
     THEN <<[level |-> "info", msg |-> "needs.json found, but will not be used"]>>
     ELSE <<>>)
  \o <<IF write_fails
         THEN [level |-> "error", msg |-> "Error during writing json file"]
         ELSE [level |-> "info", msg |-> "Needs successfully exported"]>>

\* NeedsBuilder.finish(); write_fails: write_json raises.
NeedsBuilder_finish(write_fails) ==
  LET nl == NeedsBuilder_needs_list
      target == write_json_target(NeedsBuilder_write_args)
      filtered == filter_needs(needs, builder_filter)
      keeps == chained /\ needs_file # <<>>
  IN /\ needs_list' = nl
     /\ fs' = IF write_fails THEN fs ELSE write_file(fs, target, nl)
     /\ log' = log \o NeedsBuilder_log(write_fails)
     /\ wrote' = [wrote EXCEPT !["needs"] = IF write_fails THEN <<>> ELSE <<target>>]
     /\ failed' = [failed EXCEPT !["needs"] = IF write_fails THEN <<target>> ELSE <<>>]
     /\ finishCalls' = [finishCalls EXCEPT !["needs"] = @ + 1]
     /\ runs' = IF write_fails THEN runs ELSE runs + 1
     /\ stale' = Ids(NeedsOf(NeedsBuilder_base, version)) \ Ids(filtered)
     /\ chained' = keeps
     /\ lastExport' =
          IF ~keeps THEN [v \in VersionLabels |-> <<>>]
          ELSE IF write_fails THEN lastExport
          ELSE [lastExport EXCEPT ![version] = filtered]
     /\ UNCHANGED <<dirs, raised>>

\* ------------------------------------------------------------- host build
\* The host starts a build: the registry and the configuration are what the
\* project now holds; the per-build bookkeeping starts afresh.
StartBuild(ns, us, fd, cv, nf, bf, bj, bid, bu, pb) ==
  /\ phase = "finished"
  /\ builds < MaxBuilds /\ builds' = builds + 1
  /\ needs' = ns /\ umls' = us /\ found_docs' = fd
  /\ config_version' = cv /\ needs_file' = nf /\ builder_filter' = bf
  /\ build_json' = bj /\ build_json_per_id' = bid /\ build_needumls' = bu
  /\ primary' = pb
  /\ phase' = "build" /\ hooksDone' = {} /\ raised' = FALSE /\ log' = <<>>
  /\ finishCalls' = [e \in Exporters |-> 0]
  /\ secondary' = [e \in Exporters |-> 0]
  /\ wrote' = [e \in Exporters |-> <<>>]
  /\ failed' = [e \in Exporters |-> <<>>]
  /\ needs_list' = EmptyNeedsList /\ stale' = {}
  /\ runs' = IF <<ns, cv, nf, bf>> =
                <<needs, config_version, needs_file, builder_filter>>
             THEN runs ELSE 0
  /\ UNCHANGED <<filters, build_json_per_id_path, fs, dirs, chained, lastExport,
                 baseVars>>

\* The host calls finish() of the primary builder when it is NeedsBuilder.
HostFinish_Needs ==
  /\ phase = "build" /\ primary = "needs"
  /\ \E write_fails \in BOOLEAN : NeedsBuilder_finish(write_fails)
  /\ phase' = "finished"
  /\ UNCHANGED <<registryVars, configVars, hooksDone, secondary, baseVars, builds>>

\* ------------------------------------------------- NeedsBuilder on its own
InitCommon ==
  /\ found_docs = {}
  /\ filters = <<FilterAll, FilterOpen>>
  /\ build_json_per_id_path = "needs_id"
  /\ dirs = {outdir, srcdir} /\ log = <<>>
  /\ fs = write_file(<<>>, path_join(srcdir, <<"needs.json">>), EmptyNeedsList)
  /\ phase = "build" /\ hooksDone = {} /\ raised = FALSE
  /\ finishCalls = [e \in Exporters |-> 0]
  /\ secondary = [e \in Exporters |-> 0]
  /\ wrote = [e \in Exporters |-> <<>>]
  /\ failed = [e \in Exporters |-> <<>>]
  /\ needs_list = EmptyNeedsList
  /\ builds = 1 /\ runs = 0 /\ chained = TRUE
  /\ lastExport = [v \in VersionLabels |-> <<>>]
  /\ stale = {}
  /\ outdated = {} /\ target_uri = "<none>" /\ write_phase = "not called"

InitNeeds ==
  /\ InitCommon
  /\ needs \in JsonRegistries /\ umls = <<>>
  /\ config_version \in ConfigVersions /\ needs_file \in NeedsFiles
  /\ builder_filter \in BuilderFilters
  /\ build_json = FALSE /\ build_json_per_id = FALSE /\ build_needumls = ""
  /\ primary = "needs"

EditNeeds ==
  \E ns \in JsonRegistries, cv \in ConfigVersions, nf \in NeedsFiles,
     bf \in BuilderFilters :
    StartBuild(ns, umls, found_docs, cv, nf, bf,
               build_json, build_json_per_id, build_needumls, primary)

NextNeeds == EditNeeds \/ HostFinish_Needs

SpecNeeds == InitNeeds /\ [][NextNeeds]_vars

\* ------------------------------------------------ claims about NeedsBuilder
\* C1: after NeedsBuilder.finish() the needs stored under the current version
\* are exactly filter_needs(N, F): each surviving need once, no other need,
\* in the order the filter returned them; the written file holds the same list.
C1_ExportedListIsFilteredSubset ==
  finishCalls["needs"] > 0 =>
    LET L == NeedsOf(needs_list, version)
    IN /\ L = filter_needs(needs, builder_filter)
       /\ \A n \in Range(needs) :
            FilterMatches(n, builder_filter)
              => Cardinality({i \in DOMAIN L : L[i] = n}) = 1
       /\ \A i \in DOMAIN L :
            L[i] \in Range(needs) /\ FilterMatches(L[i], builder_filter)
       /\ \A i, j \in DOMAIN L :
            i < j => \E a, b \in DOMAIN needs :
                       a < b /\ needs[a] = L[i] /\ needs[b] = L[j]
       /\ \A k \in DOMAIN wrote["needs"] :
            NeedsOf(fs[wrote["needs"][k]], version) = L

\* A second export for a version whose needs changed: the base held a need the
\* build no longer has, the filter drops one need and keeps another.
C1_Witness ==
  /\ finishCalls["needs"] > 0 /\ wrote["needs"] # <<>>
  /\ stale # {}
  /\ Len(needs) = 2 /\ Len(NeedsOf(needs_list, version)) = 1

\* C2: while every export loads the file the previous export wrote, that file
\* lists under each version exactly the filtered needs of the most recent
\* export for that version (no stale need, other versions untouched).
C2_FileHoldsLatestExportPerVersion ==
  chained =>
    \A v \in VersionLabels :
      NeedsOf(load_json(fs, SharedNeedsFile), v) = lastExport[v]

\* A re-export dropped a need of the current version while the other version
\* still lists a need that the current build does not have.
C2_Witness ==
  /\ chained /\ wrote["needs"] # <<>> /\ stale # {}
  /\ \E v \in VersionLabels \ {version} :
       Ids(NeedsOf(fs[SharedNeedsFile], v)) \ Ids(needs) # {}

\* C3: a second successful export with unchanged needs, filters and
\* configuration leaves the file's entry for the version as the first left it.
C3_ReexportIsIdempotent ==
  [][ (finishCalls'["needs"] = finishCalls["needs"] + 1
         /\ runs >= 1 /\ runs' = runs + 1)
      => LET target == write_json_target(NeedsBuilder_write_args)
         IN /\ target \in DOMAIN fs
            /\ EntryOf(fs'[target], version) = EntryOf(fs[target], version) ]_vars

\* Two exports in a row of a non-empty need list into the shared needs file.
C3_Witness ==
  /\ runs = 2 /\ needs_file = SharedNeedsFile /\ wrote["needs"] # <<>>
  /\ Len(NeedsOf(fs[SharedNeedsFile], version)) = 2

NeedsId_needs_dir == path_join(outdir, <<build_json_per_id_path>>)

\* One list that is not renewed per need: it holds every need up to this one.
NeedsId_needs_list_shared(need) ==
  LET filtered == filter_needs(needs, builder_filter)
      k == CHOOSE i \in DOMAIN filtered : filtered[i] = need
  IN AddNeeds(wipe_version(EmptyNeedsList, version), version, SubSeq(filtered, 1, k))

\* A fresh NeedsList per need: wipe the version, add the one need.
NeedsId_needs_list(need) ==
  add_need(wipe_version(EmptyNeedsList, version), version, need)

\* needs_list.write_json(f"{id}.json", needs_dir)
NeedsId_write_args(need) == <<need.id \o ".json", NeedsId_needs_dir>>

NeedsId_error(need) ==
  [level |-> "error", msg |-> "Needs-ID Builder " \o need.id \o " error"]

\* The loop with the try around the whole loop: the first failure ends it.
RECURSIVE NeedsId_loop_abort(_, _, _)
NeedsId_loop_abort(acc, filtered_needs, failing) ==
  IF filtered_needs = <<>> THEN acc
  ELSE LET need == Head(filtered_needs)
           target == write_json_target(NeedsId_write_args(need))
       IN IF need.id \in failing
            THEN [acc EXCEPT !.log = Append(@, NeedsId_error(need)),
                             !.failed = Append(@, target)]
            ELSE NeedsId_loop_abort(
                   [acc EXCEPT !.fs = write_file(@, target, NeedsId_needs_list(need)),
                               !.wrote = Append(@, target)],
                   Tail(filtered_needs), failing)

\* for need in filtered_needs: ... try: write_json except: log.error
RECURSIVE NeedsId_loop(_, _, _)
NeedsId_loop(acc, filtered_needs, failing) ==
  IF filtered_needs = <<>> THEN acc
  ELSE LET need == Head(filtered_needs)
           target == write_json_target(NeedsId_write_args(need))
       IN NeedsId_loop(
            IF need.id \in failing
              THEN [acc EXCEPT !.log = Append(@, NeedsId_error(need)),
                               !.failed = Append(@, target)]
              ELSE [acc EXCEPT !.fs = write_file(@, target, NeedsId_needs_list(need)),
                               !.wrote = Append(@, target)],
            Tail(filtered_needs), failing)

\* NeedsIdBuilder.finish(); failing: the ids whose write_json raises.
NeedsIdBuilder_finish(failing) ==
  LET filtered_needs == filter_needs(needs, builder_filter)
      res == NeedsId_loop([fs |-> fs, log |-> log, wrote |-> <<>>, failed |-> <<>>],
                          filtered_needs, failing)
  IN /\ fs' = res.fs
     /\ dirs' = dirs \cup {NeedsId_needs_dir}
     /\ log' = Append(res.log, [level |-> "info", msg |-> "Needs_id successfully exported"])
     /\ wrote' = [wrote EXCEPT !["needs_id"] = res.wrote]
     /\ failed' = [failed EXCEPT !["needs_id"] = res.failed]
     /\ finishCalls' = [finishCalls EXCEPT !["needs_id"] = @ + 1]
     /\ UNCHANGED <<raised, jsonVars>>

\* The host calls finish() of the primary builder when it is NeedsIdBuilder.
HostFinish_NeedsId ==
  /\ phase = "build" /\ primary = "needs_id"
  /\ \E failing \in SUBSET Ids(filter_needs(needs, builder_filter)) :
       NeedsIdBuilder_finish(failing)
  /\ phase' = "finished"
  /\ UNCHANGED <<registryVars, configVars, hooksDone, secondary, baseVars, builds>>

IdRegistries == NeedRegistries(NeedsInfoType, MaxIdNeeds)

InitId ==
  /\ InitCommon
  /\ needs \in IdRegistries /\ umls = <<>>
  /\ config_version \in ConfigVersions /\ needs_file = <<>>
  /\ builder_filter \in BuilderFilters
  /\ build_json = FALSE /\ build_json_per_id = FALSE /\ build_needumls = ""
  /\ primary = "needs_id"

EditId ==
  \E ns \in IdRegistries, cv \in ConfigVersions, bf \in BuilderFilters :
    StartBuild(ns, umls, found_docs, cv, needs_file, bf,
               build_json, build_json_per_id, build_needumls, primary)

NextId == EditId \/ HostFinish_NeedsId

SpecId == InitId /\ [][NextId]_vars

\* ---------------------------------------------- claims about NeedsIdBuilder
IdFile(need) ==
  path_join(path_join(outdir, <<build_json_per_id_path>>), <<need.id \o ".json">>)

Occurrences(s, x) == Cardinality({i \in DOMAIN s : s[i] = x})

SingleNeedDocument(doc, need) ==
  /\ DOMAIN doc = {version}
  /\ doc[version].needs = <<need>>
  /\ doc[version].filters = <<>>

C6_FailureIsolatedPerNeed ==
  finishCalls["needs_id"] > 0 =>
    /\ ~raised
    /\ \A n \in Range(filter_needs(needs, builder_filter)) :
         IF IdFile(n) \in Range(failed["needs_id"])
           THEN Occurrences(log, NeedsId_error(n)) = 1
           ELSE /\ IdFile(n) \in Range(wrote["needs_id"])
                /\ SingleNeedDocument(fs[IdFile(n)], n)
                /\ Occurrences(log, NeedsId_error(n)) = 0

\* Of three surviving needs the second fails; the first and the third are written.
C6_Witness ==
  /\ finishCalls["needs_id"] > 0
  /\ Len(needs) = 3 /\ builder_filter = ""
  /\ failed["needs_id"] = <<IdFile(needs[2])>>
  /\ wrote["needs_id"] = <<IdFile(needs[1]), IdFile(needs[3])>>

\* ---------------------------------------------------------- NeedumlsBuilder
\* os.makedirs(save_dir, exist_ok=True) creates the directory and its parents.
makedirs(ds, dir) == ds \cup {SubSeq(dir, 1, k) : k \in 1..Len(dir)}

\* for needuml in needumls: if needuml["save"]: ... open(save_path, "w").
\* A write that raises is not caught: it ends the loop and leaves finish().
RECURSIVE Needumls_loop(_, _, _, _)
Needumls_loop(acc, needumls, builder_outdir, failing) ==
  IF needumls = <<>> \/ acc.raised THEN acc
  ELSE LET needuml == Head(needumls)
           save_path == path_join(builder_outdir, needuml.save)
           stored == [acc EXCEPT
                        !.dirs = makedirs(@, dirname(save_path)),
                        !.log = Append(@, [level |-> "info",
                                           msg |-> "Storing needuml data to file"])]
       IN IF needuml.save = <<>>
            THEN Needumls_loop(acc, Tail(needumls), builder_outdir, failing)
          ELSE IF save_path \in failing
            THEN [stored EXCEPT !.raised = TRUE, !.failed = Append(@, save_path)]
          ELSE Needumls_loop(
                 [stored EXCEPT
                    !.fs = write_file(@, save_path, needuml.content_calculated),
                    !.wrote = Append(@, save_path)],
                 Tail(needumls), builder_outdir, failing)

SavePaths(builder_outdir) ==
  {path_join(builder_outdir, umls[i].save) : i \in {j \in DOMAIN umls : umls[j].save # <<>>}}

\* NeedumlsBuilder.finish() of a builder whose outdir is builder_outdir;
\* failing: the save paths whose write raises.
NeedumlsBuilder_finish(builder_outdir, failing) ==
  LET res == Needumls_loop(
               [fs |-> fs, dirs |-> dirs, log |-> log, raised |-> FALSE,
                wrote |-> <<>>, failed |-> <<>>],
               umls, builder_outdir, failing)
  IN /\ fs' = res.fs /\ dirs' = res.dirs /\ log' = res.log
     /\ raised' = (raised \/ res.raised)
     /\ wrote' = [wrote EXCEPT !["needumls"] = res.wrote]
     /\ failed' = [failed EXCEPT !["needumls"] = res.failed]
     /\ finishCalls' = [finishCalls EXCEPT !["needumls"] = @ + 1]
     /\ UNCHANGED jsonVars

\* The host calls finish() of the primary builder when it is NeedumlsBuilder.
HostFinish_Needumls ==
  /\ phase = "build" /\ primary = "needumls"
  /\ \E failing \in SUBSET SavePaths(outdir) : NeedumlsBuilder_finish(outdir, failing)
  /\ phase' = "finished"
  /\ UNCHANGED <<registryVars, configVars, hooksDone, secondary, baseVars, builds>>

\* Any other primary builder (html, ...) finishes without touching the exports.
HostFinish_Other ==
  /\ phase = "build" /\ primary = "html"
  /\ phase' = "finished"
  /\ UNCHANGED <<registryVars, configVars, fs, dirs, log, hooksDone, finishCalls,
                 secondary, raised, wrote, failed, jsonVars, baseVars, builds>>

\* --------------------------------------------------------- post-build hooks
isinstance_never(builder, cls) == FALSE

\* isinstance(app.builder, <exporter class>): no exporter subclasses another.
isinstance(builder, cls) == builder = cls

set_environment(builder) == [builder EXCEPT !.env = "app.env"]

\* The two construction signatures of the host both give a builder bound to env.
SecondaryBuilder(cls, new_signature) ==
  IF new_signature
    THEN [cls |-> cls, env |-> "app.env"]
    ELSE set_environment([cls |-> cls, env |-> "unset"])

hookUnchanged ==
  UNCHANGED <<fs, dirs, log, raised, wrote, failed, finishCalls, secondary, jsonVars>>

HookCalled(name) ==
  /\ phase = "finished" /\ name \notin hooksDone
  /\ hooksDone' = hooksDone \cup {name}
  /\ UNCHANGED <<registryVars, configVars, phase, baseVars, builds>>

\* build_needs_json(app, _exception)
build_needs_json ==
  /\ HookCalled("needs")
  /\ \/ ~build_json /\ hookUnchanged
     \/ build_json /\ isinstance(primary, "needs") /\ hookUnchanged
     \/ /\ build_json /\ ~isinstance(primary, "needs")
        /\ \E new_signature, write_fails \in BOOLEAN :
             /\ SecondaryBuilder("needs", new_signature).env = "app.env"
             /\ NeedsBuilder_finish(write_fails)
        /\ secondary' = [secondary EXCEPT !["needs"] = @ + 1]

\* build_needs_id_json(app, _exception)
build_needs_id_json ==
  /\ HookCalled("needs_id")
  /\ \/ ~build_json_per_id /\ hookUnchanged
     \/ build_json_per_id /\ isinstance(primary, "needs_id") /\ hookUnchanged
     \/ /\ build_json_per_id /\ ~isinstance(primary, "needs_id")
        /\ \E new_signature \in BOOLEAN,
              failing \in SUBSET Ids(filter_needs(needs, builder_filter)) :
             /\ SecondaryBuilder("needs_id", new_signature).env = "app.env"
             /\ NeedsIdBuilder_finish(failing)
        /\ secondary' = [secondary EXCEPT !["needs_id"] = @ + 1]

\* build_needumls_pumls(app, _exception): the secondary builder writes below
\* outdir/<needs_build_needumls>.
build_needumls_pumls ==
  /\ HookCalled("needumls")
  /\ \/ build_needumls = "" /\ hookUnchanged
     \/ build_needumls # "" /\ isinstance(primary, "needumls") /\ hookUnchanged
     \/ /\ build_needumls # "" /\ ~isinstance(primary, "needumls")
        /\ \E new_signature \in BOOLEAN,
              failing \in SUBSET SavePaths(path_join(outdir, <<build_needumls>>)) :
             /\ SecondaryBuilder("needumls", new_signature).env = "app.env"
             /\ NeedumlsBuilder_finish(path_join(outdir, <<build_needumls>>), failing)
        /\ secondary' = [secondary EXCEPT !["needumls"] = @ + 1]

\* ------------------------------------------------ NeedumlsBuilder on its own
InitUml ==
  /\ InitCommon
  /\ needs = <<>> /\ umls \in UmlRegistries
  /\ config_version = "1.0" /\ needs_file = <<>> /\ builder_filter = ""
  /\ build_json = FALSE /\ build_json_per_id = FALSE
  /\ build_needumls \in NeedumlsFolders
  /\ primary \in {"html", "needumls"}

EditUml ==
  \E us \in UmlRegistries, bu \in NeedumlsFolders, pb \in {"html", "needumls"} :
    StartBuild(needs, us, found_docs, config_version, needs_file, builder_filter,
               build_json, build_json_per_id, bu, pb)

NextUml ==
  EditUml \/ HostFinish_Needumls \/ HostFinish_Other \/ build_needumls_pumls

SpecUml == InitUml /\ [][NextUml]_vars

\* ------------------------------------------------------- one whole host build
InitBuild ==
  /\ InitCommon
  /\ needs = <<[id |-> "R1", status |-> "open"], [id |-> "R2", status |-> "closed"]>>
  /\ umls = <<UmlA, UmlNoSave>>
  /\ config_version = "1.0" /\ needs_file = <<>> /\ builder_filter = ""
  /\ build_json \in BOOLEAN /\ build_json_per_id \in BOOLEAN
  /\ build_needumls \in NeedumlsFolders
  /\ primary \in BuilderNames

EditBuild ==
  \E bj, bid \in BOOLEAN, bu \in NeedumlsFolders, pb \in BuilderNames :
    StartBuild(needs, umls, found_docs, config_version, needs_file, builder_filter,
               bj, bid, bu, pb)

NextBuild ==
  \/ EditBuild
  \/ HostFinish_Needs \/ HostFinish_NeedsId \/ HostFinish_Needumls \/ HostFinish_Other
  \/ build_needs_json \/ build_needs_id_json \/ build_needumls_pumls

SpecBuild == InitBuild /\ [][NextBuild]_vars

\* ------------------------------------------------------------- builder base
\* skip_write_phase: True in the base, False in NeedsBuilder.
skip_write_phase(cls) == cls # "needs"

\* The environment reads the sources: found_docs is the set of documents.
ReadDocs ==
  /\ \E docs \in SUBSET DocNames : found_docs' = docs
  /\ UNCHANGED <<needs, filters, umls, configVars, fs, dirs, log, phase, hooksDone,
                 finishCalls, secondary, raised, wrote, failed, builds, jsonVars, baseVars>>

baseUnchanged ==
  UNCHANGED <<registryVars, configVars, fs, dirs, log, phase, hooksDone, finishCalls,
              secondary, raised, wrote, failed, builds, jsonVars>>

\* get_outdated_docs(): return self.env.found_docs
get_outdated_docs ==
  /\ outdated' = found_docs
  /\ UNCHANGED <<target_uri, write_phase>>
  /\ baseUnchanged

\* get_target_uri(_docname, _typ): return ""
get_target_uri ==
  /\ \E docname \in DocNames : target_uri' = ""
  /\ UNCHANGED <<outdated, write_phase>>
  /\ baseUnchanged

\* write(build_docnames, updated_docnames, method)
write ==
  /\ write_phase' = IF skip_write_phase(primary) THEN "skipped" ELSE "ran"
  /\ UNCHANGED <<outdated, target_uri>>
  /\ baseUnchanged

InitBase ==
  /\ InitCommon
  /\ needs = <<>> /\ umls = <<>>
  /\ config_version = "1.0" /\ needs_file = <<>> /\ builder_filter = ""
  /\ build_json = FALSE /\ build_json_per_id = FALSE /\ build_needumls = ""
  /\ primary \in Exporters

NextBase == ReadDocs \/ get_outdated_docs \/ get_target_uri \/ write

SpecBase == InitBase /\ [][NextBase]_vars

\* ------------------------------------------------------ claims about a build
\* C5: in each of the three exporters a failing write is caught and logged as
\* an error; no exception leaves finish().
C5_WriteFailureNeverPropagates ==
  /\ ~raised
  /\ \A e \in Exporters :
       failed[e] # <<>> => \E i \in DOMAIN log : log[i].level = "error"

FlagOf(e) ==
  CASE e = "needs" -> build_json
    [] e = "needs_id" -> build_json_per_id
    [] e = "needumls" -> build_needumls # ""

\* C7: a hook does nothing when its flag is off or the primary builder is the
\* same exporter; otherwise it constructs one secondary builder and calls its
\* finish() once.  No exporter runs twice in a build.
C7_HookRunsExporterAtMostOnce ==
  \A e \in Exporters :
    LET byPrimary == IF primary = e /\ phase = "finished" THEN 1 ELSE 0
    IN /\ finishCalls[e] <= 1
       /\ finishCalls[e] = byPrimary + secondary[e]
       /\ e \in hooksDone
            => secondary[e] = IF FlagOf(e) /\ primary # e THEN 1 ELSE 0
       /\ e \notin hooksDone => secondary[e] = 0

\* All three hooks were called: the primary builder is the needs exporter and
\* all flags are on, so one hook stays idle and the other two run.
C7_Witness ==
  /\ hooksDone = Exporters /\ primary = "needs"
  /\ build_json /\ build_json_per_id /\ build_needumls # ""
  /\ finishCalls = [e \in Exporters |-> 1]
  /\ secondary = [e \in Exporters |-> IF e = "needs" THEN 0 ELSE 1]

UmlOutdir ==
  IF primary = "needumls" THEN outdir ELSE path_join(outdir, <<build_needumls>>)

\* C8: NeedumlsBuilder.finish() writes a file for exactly the diagram records
\* with a save path, at that path below the builder's output directory, holding
\* the record's content_calculated; a record without save path gets no file.
C8_FileForEachSavedDiagram ==
  finishCalls["needumls"] > 0 =>
    /\ \A i \in DOMAIN umls :
         LET t == path_join(UmlOutdir, umls[i].save)
         IN umls[i].save # <<>>
              => \/ t \in Range(failed["needumls"])
                 \/ /\ Occurrences(wrote["needumls"], t) = 1
                    /\ fs[t] = umls[i].content_calculated
    /\ Range(wrote["needumls"]) \cup Range(failed["needumls"]) \subseteq SavePaths(UmlOutdir)

====
